---- MODULE Spec2Model ----
(***************************************************************************)
(* The data-access layer of the music-trend dashboard:                     *)
(*   - MusicAPIService (frontend/src/services/apiService.js): the HTTP     *)
(*     fetchers with their TTL cache and fallback data, and the live-feed  *)
(*     WebSocket client with its timer-driven reconnect;                   *)
(*   - the Dashboard effect (components/Dashboard.js) that opens the live  *)
(*     feed 2 s after mount and disconnects it in its cleanup.             *)
(* Time is Date.now() in milliseconds.  Each async function is a sequence  *)
(* of handlers, one per await; each handler is one action.                 *)
(***************************************************************************)
EXTENDS Integers, Sequences, FiniteSets, TLC

VARIABLES
    now,                \* Date.now(), ms since the page was loaded
    cache,              \* this.cache: key -> [data, timestamp]
    calls,              \* every call of an async service method, in start order
    ws,                 \* this.ws: a socket id, or NoSocket (null)
    wsConnected,        \* this.wsConnected
    reconnectAttempts,  \* this.reconnectAttempts
    socks,              \* every WebSocket constructed so far, by id
    timers,             \* the pending setTimeout callbacks, in creation order
    dash,               \* every Dashboard instance mounted so far, by id
    lastDelay,          \* history: the delay of the reconnect scheduled last
                        \* since a socket opened, or -1
    norm,               \* the tracks enhanceTrackData has normalized, in order
    callbacks           \* history: the calls of the Dashboard's callbacks the
                        \* handler that ran last has made, in order

vars == <<now, cache, calls, ws, wsConnected, reconnectAttempts,
          socks, timers, dash, lastDelay, norm, callbacks>>

httpVars == <<cache, calls>>
wsVars == <<ws, wsConnected, reconnectAttempts, socks, timers, dash, lastDelay,
           callbacks>>

----------------------------------------------------------------------------
(* Bounds of the model *)

MaxCalls == 2           \* service calls started in one behaviour
MaxLimit == 1           \* explicit limit arguments are 1..MaxLimit
MaxTracks == 1          \* longest track list a backend body carries
MaxQueryLen == 2        \* longest search query, in characters
MaxSockets == 8         \* WebSockets constructed in one behaviour
MaxMounts == 2          \* Dashboard instances mounted in one behaviour
MaxListLen == 2         \* longest track list a live message carries
MaxFeedSockets == 2     \* WebSockets constructed where the messages are followed
MaxFeedSteps == 1       \* clock steps where the messages are followed
MaxWsSteps == 8         \* longest clock steps in one live-feed behaviour
MaxPopLen == 3          \* longest text of a backend popularity value
MaxNormalized == 1      \* tracks normalized in one behaviour

(* Program constants *)

cacheTimeout == 30000           \* this.cacheTimeout
maxReconnectAttempts == 5       \* this.maxReconnectAttempts
DefaultLimit == 25              \* getTrendingTracks(limit = 25)
TrendingFetchTimeout == 15000   \* the `timeout` member handed to fetch
HealthFetchTimeout == 10000     \* the same, in testConnection
ReconnectBaseDelay == 3000      \* setTimeout(..., 3000 * this.reconnectAttempts)
WsConnectDelay == 2000          \* the Dashboard's setTimeout(..., 2000)

\* The live-feed clock moves by at most one base delay between two events and
\* stops after MaxWsSteps such steps.
WsTimeStep == ReconnectBaseDelay
MaxWsNow == MaxWsSteps * WsTimeStep
MaxFeedNow == MaxFeedSteps * WsTimeStep
DashboardFallbackCount == 21    \* Array.from({ length: 21 }, ...)

----------------------------------------------------------------------------
(* Values *)

NoValue == [kind |-> "none"]        \* nothing returned yet
NullData == [kind |-> "null"]       \* the JSON value null
Undefined == -1                     \* an omitted limit argument
NoSocket == 0

Limits == 1..MaxLimit
LimitArgs == Limits \cup {Undefined}

Statuses == {200, 500}
ResponseOk(status) == status >= 200 /\ status <= 299

RawTracks == {[null |-> TRUE, id |-> 0], [null |-> FALSE, id |-> 1]}

SeqsUpTo(S, n) == UNION {[1..k -> S] : k \in 0..n}

(* A parsed /trending body: null, or an object whose `success` is truthy or
   not and whose `tracks` is missing, a truthy non-array, or an array. *)
TrendingBodies ==
    {[null |-> TRUE, success |-> FALSE, tracksKind |-> "missing", tracks |-> <<>>]}
    \cup {[null |-> FALSE, success |-> s, tracksKind |-> k, tracks |-> <<>>] :
             s \in BOOLEAN, k \in {"missing", "notArray"}}
    \cup {[null |-> FALSE, success |-> s, tracksKind |-> "array", tracks |-> t] :
             s \in BOOLEAN, t \in SeqsUpTo(RawTracks, MaxTracks)}

(* A parsed /analytics body: null, or an object with or without
   content_distribution. *)
AnalyticsBodies ==
    {[null |-> TRUE, content_distribution |-> FALSE],
     [null |-> FALSE, content_distribution |-> FALSE],
     [null |-> FALSE, content_distribution |-> TRUE]}

(* A parsed /health body: null or an object. *)
HealthBodies == {[null |-> TRUE], [null |-> FALSE]}

(* A parsed /search body: null, or an object whose `success` is truthy or
   not, whose `tracks` is missing, a truthy non-array, or an array, and whose
   metadata.total is a number or, written 0 here, missing. *)
SearchBodies ==
    {[null |-> TRUE, success |-> FALSE, tracksKind |-> "missing",
      tracks |-> <<>>, total |-> 0]}
    \cup {[null |-> FALSE, success |-> s, tracksKind |-> k,
           tracks |-> <<>>, total |-> 0] :
             s \in BOOLEAN, k \in {"missing", "notArray"}}
    \cup {[null |-> FALSE, success |-> s, tracksKind |-> "array",
           tracks |-> t, total |-> n] :
             s \in BOOLEAN, t \in SeqsUpTo(RawTracks, MaxTracks), n \in {0, 7}}

(* The query handed to searchTracks: omitted, a string (a sequence of
   characters, a letter or a blank), or a number other than 0. *)
Chars == {"a", " "}
Queries ==
    {[type |-> "undefined", chars |-> <<>>], [type |-> "number", chars |-> <<>>]}
    \cup {[type |-> "string", chars |-> t] : t \in SeqsUpTo(Chars, MaxQueryLen)}

----------------------------------------------------------------------------
(* Pure helpers of the service *)

TrendingKey_Shared(limit) == <<"trending", 0>>

TrendingKey(limit) == <<"trending", limit>>     \* `trending_${limit}`
AnalyticsKey == <<"analytics", 0>>              \* 'analytics'

EffectiveLimit(arg) == IF arg = Undefined THEN DefaultLimit ELSE arg

isCacheValid_Inverted(key) ==
    IF key \notin DOMAIN cache THEN FALSE
    ELSE (now - cache[key].timestamp) > cacheTimeout

isCacheValid_Inclusive(key) ==
    IF key \notin DOMAIN cache THEN FALSE
    ELSE (now - cache[key].timestamp) <= cacheTimeout

isCacheValid(key) ==
    IF key \notin DOMAIN cache THEN FALSE
    ELSE (now - cache[key].timestamp) < cacheTimeout

(* !query is true of undefined and of the empty string. *)
Truthy(query) ==
    \/ query.type = "number"
    \/ query.type = "string" /\ Len(query.chars) > 0

(* String.prototype.trim: the blanks at both ends are removed. *)
RECURSIVE TrimStart(_)
TrimStart(t) ==
    IF t # <<>> /\ Head(t) = " " THEN TrimStart(Tail(t)) ELSE t

RECURSIVE TrimEnd(_)
TrimEnd(t) ==
    IF t # <<>> /\ t[Len(t)] = " " THEN TrimEnd(SubSeq(t, 1, Len(t) - 1)) ELSE t

Trim(t) == TrimEnd(TrimStart(t))

(* query.trim().length < 2, for a string. *)
TooShort_Untrimmed(query) == Len(query.chars) < 2

TooShort(query) == Len(Trim(query.chars)) < 2

(* this.cache.set(key, {data, timestamp: Date.now()}): the entry of the
   key is replaced whatever it held. *)
CacheSet_KeepExisting(key, data) ==
    IF key \in DOMAIN cache THEN cache
    ELSE (key :> [data |-> data, timestamp |-> now]) @@ cache

CacheSet(key, data) == (key :> [data |-> data, timestamp |-> now]) @@ cache

enhanceTrackData(track) ==
    [track_id |-> track.id, source |-> "jiosaavn_api"]

getFallbackTrendingData_OffByOne(limit, oid) ==
    [kind |-> "trending", oid |-> oid, success |-> TRUE,
     tracks |-> [i \in 1..(limit - 1) |->
                    [track_id |-> i - 1, source |-> "fallback"]],
     source |-> "fallback"]

getFallbackTrendingData(limit, oid) ==
    [kind |-> "trending", oid |-> oid, success |-> TRUE,
     tracks |-> [i \in 1..limit |->
                    [track_id |-> i - 1, source |-> "fallback"]],
     source |-> "fallback"]

getFallbackAnalytics(oid) ==
    [kind |-> "analytics", oid |-> oid, content_distribution |-> TRUE,
     source |-> "fallback"]

(* The result object getTrendingTracks builds from a validated body. *)
TrendingResult(body, oid) ==
    [kind |-> "trending", oid |-> oid, success |-> body.success,
     tracks |-> [i \in 1..Len(body.tracks) |-> enhanceTrackData(body.tracks[i])],
     source |-> "api", timestamp |-> now]

(* The validation of getTrendingTracks and the map over the tracks: TRUE
   when either throws (reading a property of null is a TypeError). *)
TrendingBodyThrows(body) ==
    \/ body.null
    \/ ~body.success
    \/ body.tracksKind # "array"
    \/ \E i \in 1..Len(body.tracks) : body.tracks[i].null

AnalyticsData(body, oid) ==
    IF body.null THEN NullData
    ELSE [kind |-> "analytics", oid |-> oid,
          content_distribution |-> body.content_distribution,
          source |-> "backend"]

----------------------------------------------------------------------------
(* The async calls.  A call record:
     op, limit        the method and its (defaulted) limit argument
     pc               "awaitFetch", "awaitJson" or "done"
     startedAt        Date.now() when the call was made
     timeout          the `timeout` member of the init handed to fetch
     net              whether the call issued a network request
     ok               response.ok, once the response has arrived
     outcome          how the call ended: "pending", "hit", "ok", "neterr",
                      "status", "badjson", "badbody"
     storedAt         Date.now() when the call wrote the cache, or -1
     ret              the value the call resolved with
   Each call allocates at most one object, its result or its fallback: the
   object's identity (oid) is the call's index. *)

NewCall(op, limit, hit, ret) ==
    [op |-> op, limit |-> limit,
     timeout |-> IF op = "health" THEN HealthFetchTimeout ELSE TrendingFetchTimeout,
     pc |-> IF hit THEN "done" ELSE "awaitFetch",
     startedAt |-> now, net |-> ~hit, ok |-> FALSE,
     outcome |-> IF hit THEN "hit" ELSE "pending",
     storedAt |-> -1, ret |-> ret]

CallKey(c) == IF c.op = "trending" THEN TrendingKey(c.limit) ELSE AnalyticsKey

(* The catch block of each method: the value it returns. *)
Fallback(c, oid) ==
    CASE c.op = "trending"  -> getFallbackTrendingData(c.limit, oid)
      [] c.op = "analytics" -> getFallbackAnalytics(oid)
      [] c.op = "search"    -> [kind |-> "search", oid |-> oid, tracks |-> <<>>,
                                total |-> 0, query |-> FALSE, error |-> TRUE]
      [] OTHER              -> [kind |-> "health", oid |-> oid,
                                healthy |-> FALSE, error |-> TRUE]

Fail(i, why) ==
    /\ calls' = [calls EXCEPT ![i] =
                    [@ EXCEPT !.pc = "done", !.outcome = why,
                              !.ret = Fallback(calls[i], i)]]
    /\ UNCHANGED cache

(* getTrendingTracks up to its first await: a cache hit returns the cached
   object; a miss issues GET /trending?limit=N.  window.fetch has no
   `timeout` member in its init, so no timer is armed for the request. *)
getTrendingTracks(arg) ==
    /\ Len(calls) < MaxCalls
    /\ LET limit == EffectiveLimit(arg)
           key == TrendingKey(limit)
       IN  calls' = Append(calls,
                IF isCacheValid(key)
                THEN NewCall("trending", limit, TRUE, cache[key].data)
                ELSE NewCall("trending", limit, FALSE, NoValue))
    /\ UNCHANGED <<now, cache>>
    /\ UNCHANGED <<wsVars, norm>>

(* getAnalytics up to its first await. *)
getAnalytics ==
    /\ Len(calls) < MaxCalls
    /\ calls' = Append(calls,
            IF isCacheValid(AnalyticsKey)
            THEN NewCall("analytics", 0, TRUE, cache[AnalyticsKey].data)
            ELSE NewCall("analytics", 0, FALSE, NoValue))
    /\ UNCHANGED <<now, cache>>
    /\ UNCHANGED <<wsVars, norm>>

(* testConnection up to its first await: it has no cache. *)
testConnection ==
    /\ Len(calls) < MaxCalls
    /\ calls' = Append(calls, NewCall("health", 0, FALSE, NoValue))
    /\ UNCHANGED <<now, cache>>
    /\ UNCHANGED <<wsVars, norm>>

(* fetch rejects (the network failed): the catch block runs. *)
FetchReject(i) ==
    /\ calls[i].pc = "awaitFetch"
    /\ Fail(i, "neterr")
    /\ UNCHANGED now
    /\ UNCHANGED <<wsVars, norm>>

(* fetch resolves with a response: getTrendingTracks and getAnalytics throw
   on !response.ok, testConnection and searchTracks go on to read the body. *)
FetchResolve(i, status) ==
    /\ calls[i].pc = "awaitFetch"
    /\ IF calls[i].op \in {"trending", "analytics"} /\ ~ResponseOk(status)
       THEN Fail(i, "status")
       ELSE /\ calls' = [calls EXCEPT ![i] =
                    [@ EXCEPT !.pc = "awaitJson", !.ok = ResponseOk(status)]]
            /\ UNCHANGED cache
    /\ UNCHANGED now
    /\ UNCHANGED <<wsVars, norm>>

(* response.json() rejects: the body is not JSON. *)
JsonReject(i) ==
    /\ calls[i].pc = "awaitJson"
    /\ Fail(i, "badjson")
    /\ UNCHANGED now
    /\ UNCHANGED <<wsVars, norm>>

(* response.json() resolves in getTrendingTracks: validate, enhance, cache
   and return. *)
TrendingJson(i, body) ==
    /\ calls[i].pc = "awaitJson"
    /\ calls[i].op = "trending"
    /\ IF TrendingBodyThrows(body)
       THEN Fail(i, "badbody")
       ELSE LET result == TrendingResult(body, i)
            IN  /\ cache' = CacheSet(CallKey(calls[i]), result)
                /\ calls' = [calls EXCEPT ![i] =
                        [@ EXCEPT !.pc = "done", !.outcome = "ok",
                                  !.storedAt = now, !.ret = result]]
    /\ UNCHANGED now
    /\ UNCHANGED <<wsVars, norm>>

(* response.json() resolves in getAnalytics: cache and return the body as
   it is. *)
AnalyticsJson(i, body) ==
    /\ calls[i].pc = "awaitJson"
    /\ calls[i].op = "analytics"
    /\ LET data == AnalyticsData(body, i)
       IN  /\ cache' = CacheSet(AnalyticsKey, data)
           /\ calls' = [calls EXCEPT ![i] =
                   [@ EXCEPT !.pc = "done", !.outcome = "ok",
                             !.storedAt = now, !.ret = data]]
    /\ UNCHANGED now
    /\ UNCHANGED <<wsVars, norm>>

(* response.json() resolves in testConnection: reading data.api_status of
   null throws into the catch block. *)
HealthJson(i, body) ==
    /\ calls[i].pc = "awaitJson"
    /\ calls[i].op = "health"
    /\ IF body.null
       THEN Fail(i, "badbody")
       ELSE /\ calls' = [calls EXCEPT ![i] =
                    [@ EXCEPT !.pc = "done", !.outcome = "ok",
                              !.ret = [kind |-> "health", oid |-> i,
                                       healthy |-> calls[i].ok, error |-> FALSE]]]
            /\ UNCHANGED cache
    /\ UNCHANGED now
    /\ UNCHANGED <<wsVars, norm>>

(* searchTracks(query) up to its first await.  The test of the query stands
   before the try block: for a query that is neither falsy nor a string,
   query.trim is not a function and the TypeError rejects the promise the
   async method returned.  The init handed to fetch has no timeout member. *)
NewSearch(query, pc, outcome, ret) ==
    [op |-> "search", limit |-> 20, query |-> query, timeout |-> 0,
     pc |-> pc, startedAt |-> now, net |-> pc # "done", ok |-> FALSE,
     outcome |-> outcome, storedAt |-> -1, ret |-> ret]

EmptySearch(oid) ==
    [kind |-> "search", oid |-> oid, tracks |-> <<>>, total |-> 0,
     query |-> FALSE, error |-> FALSE]

searchTracks(query) ==
    /\ Len(calls) < MaxCalls
    /\ LET oid == Len(calls) + 1
       IN  calls' = Append(calls,
                CASE ~Truthy(query) ->
                        NewSearch(query, "done", "short", EmptySearch(oid))
                  [] Truthy(query) /\ query.type # "string" ->
                        NewSearch(query, "done", "thrown", [kind |-> "TypeError"])
                  [] OTHER ->
                        IF TooShort(query)
                        THEN NewSearch(query, "done", "short", EmptySearch(oid))
                        ELSE NewSearch(query, "awaitFetch", "pending", NoValue))
    /\ UNCHANGED <<now, cache>>
    /\ UNCHANGED <<wsVars, norm>>

(* response.json() resolves in searchTracks: a body with success and tracks
   gives the enhanced tracks and their total; any other object gives the
   empty result; reading a property of null, or mapping what is not an
   array, throws into the catch block. *)
SearchBodyThrows(body) ==
    \/ body.null
    \/ /\ body.success
       /\ \/ body.tracksKind = "notArray"
          \/ /\ body.tracksKind = "array"
             /\ \E k \in 1..Len(body.tracks) : body.tracks[k].null

SearchResult(body, oid) ==
    IF body.success /\ body.tracksKind = "array"
    THEN [kind |-> "search", oid |-> oid,
          tracks |-> [k \in 1..Len(body.tracks) |-> enhanceTrackData(body.tracks[k])],
          total |-> IF body.total # 0 THEN body.total ELSE Len(body.tracks),
          query |-> TRUE, error |-> FALSE]
    ELSE [kind |-> "search", oid |-> oid, tracks |-> <<>>, total |-> 0,
          query |-> TRUE, error |-> FALSE]

SearchJson(i, body) ==
    /\ calls[i].pc = "awaitJson"
    /\ calls[i].op = "search"
    /\ IF SearchBodyThrows(body)
       THEN Fail(i, "badbody")
       ELSE /\ calls' = [calls EXCEPT ![i] =
                    [@ EXCEPT !.pc = "done", !.outcome = "ok",
                              !.ret = SearchResult(body, i)]]
            /\ UNCHANGED cache
    /\ UNCHANGED now
    /\ UNCHANGED <<wsVars, norm>>

(* Time passes while the HTTP layer waits: the clock is observed at the
   instants around the cache's expiry. *)
CacheInstants == {29999, 30000}

CacheTick ==
    /\ \E t \in CacheInstants :
          /\ t > now
          /\ now' = t
    /\ UNCHANGED <<httpVars, norm>>
    /\ UNCHANGED <<wsVars, norm>>

----------------------------------------------------------------------------
(* The service after its constructor has run, at page load. *)
Init ==
    /\ now = 0
    /\ cache = <<>>
    /\ calls = <<>>
    /\ ws = NoSocket
    /\ wsConnected = FALSE
    /\ reconnectAttempts = 0
    /\ socks = <<>>
    /\ timers = <<>>
    /\ dash = <<>>
    /\ lastDelay = -1
    /\ norm = <<>>
    /\ callbacks = <<>>

CacheNext ==
    \/ \E arg \in LimitArgs : getTrendingTracks(arg)
    \/ getAnalytics
    \/ testConnection
    \/ \E i \in 1..Len(calls) : FetchReject(i)
    \/ \E i \in 1..Len(calls), status \in Statuses : FetchResolve(i, status)
    \/ \E i \in 1..Len(calls) : JsonReject(i)
    \/ \E i \in 1..Len(calls), body \in TrendingBodies : TrendingJson(i, body)
    \/ \E i \in 1..Len(calls), body \in AnalyticsBodies : AnalyticsJson(i, body)
    \/ \E i \in 1..Len(calls), body \in HealthBodies : HealthJson(i, body)
    \/ CacheTick

(* The HTTP layer alone: the live feed is never opened. *)
CacheSpec == Init /\ [][CacheNext]_vars

SearchNext ==
    \/ \E query \in Queries : searchTracks(query)
    \/ \E i \in 1..Len(calls) : FetchReject(i)
    \/ \E i \in 1..Len(calls), status \in Statuses : FetchResolve(i, status)
    \/ \E i \in 1..Len(calls) : JsonReject(i)
    \/ \E i \in 1..Len(calls), body \in SearchBodies : SearchJson(i, body)

(* The search alone. *)
SearchSpec == Init /\ [][SearchNext]_vars

ServiceNext ==
    \/ CacheNext
    \/ \E query \in Queries : searchTracks(query)
    \/ \E i \in 1..Len(calls), body \in SearchBodies : SearchJson(i, body)

(* Every operation of the HTTP layer. *)
ServiceSpec == Init /\ [][ServiceNext]_vars

----------------------------------------------------------------------------
(* The live feed.

   A socket record: readyState as the browser reports it; owner, the
   Dashboard instance whose callbacks (onMessage, onConnectionChange) were
   passed to the connectWebSocket call that constructed the socket and are
   closed over by its handlers; via, who made that call ("app": the
   Dashboard, "reconnect": a reconnect timer).

   A timer record: kind ("wsTimer": the Dashboard's 2 s delay before it
   connects, "reconnect": the one onclose sets), due, delay, and owner, the
   instance whose callbacks the timer's closure holds.

   A Dashboard record: mounted (the effect's closure variable), wsConnected
   and connectionStatus (its React state), and two history fields: connect,
   what its connectWebSocket call did ("none" yet, "created" a socket, or
   "noop"), and invoked, whether a callback of its was ever called.  Where
   the loading of its data is followed, the record also has analytics (React
   state) and load, the position of the loadDashboardData call its effect
   made at mount: "testing" the connection, "fetching" the data, "done",
   or "unmounted" when the Dashboard was unmounted. *)

Min(a, b) == IF a <= b THEN a ELSE b

RemoveAt(seq, k) == SubSeq(seq, 1, k - 1) \o SubSeq(seq, k + 1, Len(seq))

Live(s) == socks[s].readyState \in {"CONNECTING", "OPEN"}

ReconnectTimers == {k \in 1..Len(timers) : timers[k].kind = "reconnect"}

(* this.ws && this.ws.readyState === WebSocket.OPEN *)
IsOpen_Never == FALSE

IsOpen == ws # NoSocket /\ socks[ws].readyState = "OPEN"

(* 3000 * this.reconnectAttempts *)
ReconnectDelay(attempts) == ReconnectBaseDelay * attempts

(* if (onConnectionChange) onConnectionChange(connected): the Dashboard
   always passes the callback, so the handler calls it. *)
StatusCalls_None(cb, connected) == <<>>

StatusCalls(cb, connected) ==
    <<[cb |-> cb, fn |-> "onConnectionChange", arg |-> [connected |-> connected]]>>

(* The Dashboard's onConnectionChange callback. *)
StatusCallback_Unguarded(d, cb, connected) ==
    [d EXCEPT ![cb] =
        [@ EXCEPT !.wsConnected = connected,
                  !.connectionStatus =
                        IF connected THEN "connected" ELSE "disconnected",
                  !.invoked = TRUE]]

StatusCallback(d, cb, connected) ==
    [d EXCEPT ![cb] =
        IF @.mounted
        THEN [@ EXCEPT !.wsConnected = connected,
                       !.connectionStatus =
                            IF connected THEN "connected" ELSE "disconnected",
                       !.invoked = TRUE]
        ELSE [@ EXCEPT !.invoked = TRUE]]

(* What the Dashboard holds in trendingData: null until the first load,
   then an object with tracks, success, and metadata (its source, its total
   and, once a live update came, its last_update). *)
NullTrending ==
    [null |-> TRUE, tracks |-> <<>>, success |-> FALSE,
     metaSource |-> "none", metaTotal |-> 0, last_update |-> -1]

(* A live message after JSON.parse: its type and its data, a track list
   (tracks are written as their ids) or nothing; json is FALSE for a payload
   that does not parse, isNull is TRUE for the payload "null".  The data of
   a message of another type is never read: lists of one track stand for
   all. *)
TrackIds == {1, 2}
TrackLists == SeqsUpTo(TrackIds, MaxListLen)
Messages ==
    {[json |-> FALSE, isNull |-> FALSE, type |-> "other",
      hasData |-> FALSE, data |-> <<>>],
     [json |-> TRUE, isNull |-> TRUE, type |-> "other",
      hasData |-> FALSE, data |-> <<>>]}
    \cup {[json |-> TRUE, isNull |-> FALSE, type |-> t,
           hasData |-> FALSE, data |-> <<>>] :
             t \in {"trending_update", "other"}}
    \cup {[json |-> TRUE, isNull |-> FALSE, type |-> "trending_update",
           hasData |-> TRUE, data |-> l] : l \in TrackLists}
    \cup {[json |-> TRUE, isNull |-> FALSE, type |-> "other",
           hasData |-> TRUE, data |-> l] : l \in {t \in TrackLists : Len(t) = 1}}

(* setTrendingData(prev => ({...prev, tracks: data.data,
     metadata: {...prev?.metadata, last_update: ..., source: 'websocket'}})) *)
LiveUpdate_Append(prev, list) ==
    [prev EXCEPT !.null = FALSE, !.tracks = prev.tracks \o list,
                 !.metaSource = "websocket", !.last_update = now]

LiveUpdate(prev, list) ==
    [prev EXCEPT !.null = FALSE, !.tracks = list,
                 !.metaSource = "websocket", !.last_update = now]

(* The Dashboard's onMessage callback: after unmount it returns at once;
   only a trending_update that carries data is acted upon. *)
MessageCallback(d, cb, msg) ==
    [d EXCEPT ![cb] =
        IF @.mounted /\ msg.type = "trending_update" /\ msg.hasData
        THEN [@ EXCEPT !.invoked = TRUE,
                       !.trendingData = LiveUpdate(@, msg.data)]
        ELSE [@ EXCEPT !.invoked = TRUE]]

(* connectWebSocket(onMessage, onConnectionChange), the callbacks being
   those of instance cb.  The URL is the constant this.wsURL, for which the
   WebSocket constructor does not throw: the catch block is not reached. *)
connectWebSocket(cb, by) ==
    IF IsOpen
    THEN UNCHANGED <<ws, socks>>
    ELSE /\ Len(socks) < MaxSockets
         /\ socks' = Append(socks, [readyState |-> "CONNECTING",
                                    owner |-> cb, via |-> by])
         /\ ws' = Len(socks) + 1

(* ws.close(): a closed or closing socket ignores it. *)
CloseCalled(readyState) ==
    IF readyState \in {"CONNECTING", "OPEN"} THEN "CLOSING" ELSE readyState

disconnectWebSocket ==
    IF ws # NoSocket
    THEN /\ socks' = [socks EXCEPT ![ws].readyState = CloseCalled(@)]
         /\ ws' = NoSocket
         /\ wsConnected' = FALSE
    ELSE UNCHANGED <<ws, wsConnected, socks>>

(* What the Dashboard holds in analytics: null until the first load, then
   an object with a content_distribution (the service's result if it has
   one, or else the Dashboard's fallback). *)
NullAnalytics == [null |-> TRUE, content_distribution |-> FALSE]

NewDashboard ==
    [mounted |-> TRUE, wsConnected |-> FALSE, connectionStatus |-> "connecting",
     trendingData |-> NullTrending, analytics |-> NullAnalytics,
     load |-> "testing",
     connect |-> "none", invoked |-> FALSE]

WsTimer(inst) ==
    [kind |-> "wsTimer", due |-> now + WsConnectDelay,
     delay |-> WsConnectDelay, owner |-> inst]

(* The browser runs the pending timer that is due first, the older one
   first among timers due together. *)
Fires(k) ==
    /\ k \in 1..Len(timers)
    /\ timers[k].due <= now
    /\ \A j \in 1..Len(timers) :
          \/ timers[j].due > timers[k].due
          \/ timers[j].due = timers[k].due /\ j >= k

(* The Dashboard's effect runs on its first mount. *)
DashboardMount ==
    /\ dash = <<>>
    /\ dash' = <<NewDashboard>>
    /\ timers' = Append(timers, WsTimer(1))
    /\ UNCHANGED <<now, ws, wsConnected, reconnectAttempts, socks, lastDelay>>
    /\ callbacks' = <<>>
    /\ UNCHANGED <<httpVars, norm>>

(* App keys the Dashboard's parent on activeSection: a change of section
   unmounts the Dashboard, running its effect's cleanup (mounted = false,
   clearTimeout(wsTimer), disconnectWebSocket()), and mounts a new one in
   the same commit, whose effect then runs.  React discards the state of
   the unmounted Dashboard (its record goes back to the initial values) and
   ignores what its loadDashboardData call still sets. *)
DashboardRemount ==
    /\ dash # <<>>
    /\ Len(dash) < MaxMounts
    /\ LET cur == Len(dash)
           kept == SelectSeq(timers,
                       LAMBDA t : ~(t.kind = "wsTimer" /\ t.owner = cur))
       IN  /\ disconnectWebSocket
           /\ timers' = Append(kept, WsTimer(cur + 1))
           /\ dash' = Append([dash EXCEPT ![cur].mounted = FALSE,
                                         ![cur].wsConnected = FALSE,
                                         ![cur].connectionStatus = "connecting",
                                         ![cur].trendingData = NullTrending,
                                         ![cur].analytics = NullAnalytics,
                                         ![cur].load = "unmounted"],
                             NewDashboard)
    /\ UNCHANGED <<now, reconnectAttempts, lastDelay>>
    /\ callbacks' = <<>>
    /\ UNCHANGED <<httpVars, norm>>

(* The Dashboard's wsTimer fires: it calls connectWebSocket with its
   callbacks if it is still mounted. *)
WsTimerFire(k) ==
    /\ Fires(k)
    /\ timers[k].kind = "wsTimer"
    /\ LET inst == timers[k].owner
       IN  IF dash[inst].mounted
           THEN /\ connectWebSocket(inst, "app")
                /\ dash' = [dash EXCEPT ![inst].connect =
                                IF socks' = socks THEN "noop" ELSE "created"]
           ELSE UNCHANGED <<ws, socks, dash>>
    /\ timers' = RemoveAt(timers, k)
    /\ UNCHANGED <<now, wsConnected, reconnectAttempts, lastDelay>>
    /\ callbacks' = <<>>
    /\ UNCHANGED <<httpVars, norm>>

(* The timer set by onclose fires: count the attempt and connect again with
   the callbacks of the closed socket. *)
ReconnectTimerFire(k) ==
    /\ Fires(k)
    /\ timers[k].kind = "reconnect"
    /\ reconnectAttempts' = reconnectAttempts + 1
    /\ connectWebSocket(timers[k].owner, "reconnect")
    /\ timers' = RemoveAt(timers, k)
    /\ UNCHANGED <<now, wsConnected, dash, lastDelay>>
    /\ callbacks' = <<>>
    /\ UNCHANGED <<httpVars, norm>>

(* The connection of socket s is established: its onopen handler runs. *)
SocketOpen(s) ==
    /\ socks[s].readyState = "CONNECTING"
    /\ socks' = [socks EXCEPT ![s].readyState = "OPEN"]
    /\ wsConnected' = TRUE
    /\ reconnectAttempts' = 0
    /\ dash' = StatusCallback(dash, socks[s].owner, TRUE)
    /\ lastDelay' = -1
    /\ UNCHANGED <<now, ws, timers>>
    /\ callbacks' = StatusCalls(socks[s].owner, TRUE)
    /\ UNCHANGED <<httpVars, norm>>

(* Socket s is closed (the connection failed, the server or the network
   dropped it, or the closing handshake ended): its onclose handler runs.
   The error event that precedes a failure only logs. *)
SocketClose(s) ==
    /\ socks[s].readyState # "CLOSED"
    /\ socks' = [socks EXCEPT ![s].readyState = "CLOSED"]
    /\ wsConnected' = FALSE
    /\ dash' = StatusCallback(dash, socks[s].owner, FALSE)
    /\ IF reconnectAttempts < maxReconnectAttempts
       THEN /\ timers' = Append(timers,
                    [kind |-> "reconnect",
                     due |-> now + ReconnectDelay(reconnectAttempts),
                     delay |-> ReconnectDelay(reconnectAttempts),
                     owner |-> socks[s].owner])
            /\ lastDelay' = ReconnectDelay(reconnectAttempts)
       ELSE UNCHANGED <<timers, lastDelay>>
    /\ UNCHANGED <<now, ws, reconnectAttempts>>
    /\ callbacks' = StatusCalls(socks[s].owner, FALSE)
    /\ UNCHANGED <<httpVars, norm>>

(* A message arrives on the open socket s: its onmessage handler parses it,
   logs data.type and hands the parsed value to onMessage, all inside one
   try block whose catch logs: a payload that is not JSON makes JSON.parse
   throw, and the payload "null" makes reading data.type throw. *)
Payloads == {m \in Messages : ~m.hasData}

Dispatched(payload) == payload.json /\ ~payload.isNull

SocketMessage(s, payload) ==
    /\ socks[s].readyState = "OPEN"
    /\ callbacks' = IF Dispatched(payload)
                    THEN <<[cb |-> socks[s].owner, fn |-> "onMessage",
                            arg |-> [type |-> payload.type]]>>
                    ELSE <<>>
    /\ dash' = IF Dispatched(payload)
               THEN MessageCallback(dash, socks[s].owner, payload)
               ELSE dash
    /\ UNCHANGED <<now, ws, wsConnected, reconnectAttempts, socks, timers, lastDelay>>
    /\ UNCHANGED <<httpVars, norm>>

(* Time passes, up to the next timer that is due. *)
NextDue(t) ==
    IF \E k \in 1..Len(timers) : timers[k].due < t
    THEN CHOOSE d \in {timers[k].due : k \in 1..Len(timers)} :
            \A k \in 1..Len(timers) : timers[k].due >= d
    ELSE t

WsTick ==
    /\ now < MaxWsNow
    /\ \A k \in 1..Len(timers) : timers[k].due > now
    /\ now' = NextDue(Min(now + WsTimeStep, MaxWsNow))
    /\ UNCHANGED <<ws, wsConnected, reconnectAttempts, socks, timers, dash, lastDelay>>
    /\ callbacks' = <<>>
    /\ UNCHANGED <<httpVars, norm>>

WsNext ==
    \/ DashboardMount
    \/ DashboardRemount
    \/ \E k \in 1..Len(timers) : WsTimerFire(k)
    \/ \E k \in 1..Len(timers) : ReconnectTimerFire(k)
    \/ \E s \in 1..Len(socks) : SocketOpen(s)
    \/ \E s \in 1..Len(socks) : SocketClose(s)
    \/ \E s \in 1..Len(socks), payload \in Payloads : SocketMessage(s, payload)
    \/ WsTick

(* The live feed alone, driven by the Dashboard: no HTTP call is made, and
   the messages of the feed carry no track list, so that what the Dashboard
   shows stays out of the way of the connection. *)
WsSpec == Init /\ [][WsNext]_vars

(* loadDashboardData, after testConnection has returned: connectionStatus
   becomes 'connected' if the result is healthy and 'degraded' otherwise.
   testConnection never rejects and Promise.allSettled never rejects, so the
   catch block (connectionStatus 'error') is not reached. *)
HealthStatus_Connected(healthy) == "connected"

HealthStatus(healthy) == IF healthy THEN "connected" ELSE "degraded"

ConnectionTested(healthy) ==
    /\ dash # <<>>
    /\ dash[Len(dash)].load = "testing"
    /\ dash' = [dash EXCEPT ![Len(dash)].connectionStatus = HealthStatus(healthy),
                            ![Len(dash)].load = "fetching"]
    /\ callbacks' = <<>>
    /\ UNCHANGED <<now, ws, wsConnected, reconnectAttempts, socks, timers, lastDelay>>
    /\ UNCHANGED <<httpVars, norm>>

(* loadDashboardData, after both requests have settled: trendingData
   becomes the service's result, if it has tracks, or else the Dashboard's
   own fallback of 21 tracks; analytics becomes the service's result, if it
   has a content_distribution, or else the Dashboard's fallback. *)
LoadedTrending ==
    {[null |-> FALSE, tracks |-> l, success |-> TRUE,
      metaSource |-> "backend", metaTotal |-> Len(l), last_update |-> -1] :
        l \in {t \in TrackLists : Len(t) > 0}}
    \cup {[null |-> FALSE,
           tracks |-> [k \in 1..DashboardFallbackCount |-> 100 + k],
           success |-> TRUE, metaSource |-> "fallback_generated",
           metaTotal |-> DashboardFallbackCount, last_update |-> -1]}

LoadedAnalytics == [null |-> FALSE, content_distribution |-> TRUE]

TrendingLoaded(data) ==
    /\ dash # <<>>
    /\ dash[Len(dash)].load = "fetching"
    /\ dash' = [dash EXCEPT ![Len(dash)].trendingData = data,
                            ![Len(dash)].analytics = LoadedAnalytics,
                            ![Len(dash)].load = "done"]
    /\ callbacks' = <<>>
    /\ UNCHANGED <<now, ws, wsConnected, reconnectAttempts, socks, timers, lastDelay>>
    /\ UNCHANGED <<httpVars, norm>>

(* The Dashboard and its feed with every kind of message, followed over
   MaxFeedSockets sockets and MaxFeedSteps steps of the clock. *)
FeedCap == Len(socks') <= MaxFeedSockets /\ now' <= MaxFeedNow

FeedNext ==
    \/ DashboardMount /\ FeedCap
    \/ DashboardRemount /\ FeedCap
    \/ \E healthy \in BOOLEAN : ConnectionTested(healthy) /\ FeedCap
    \/ \E data \in LoadedTrending : TrendingLoaded(data) /\ FeedCap
    \/ \E k \in 1..Len(timers) : WsTimerFire(k) /\ FeedCap
    \/ \E k \in 1..Len(timers) : ReconnectTimerFire(k) /\ FeedCap
    \/ \E s \in 1..Len(socks) : SocketOpen(s) /\ FeedCap
    \/ \E s \in 1..Len(socks) : SocketClose(s) /\ FeedCap
    \/ \E s \in 1..Len(socks), msg \in Messages : SocketMessage(s, msg) /\ FeedCap
    \/ WsTick /\ FeedCap

FeedSpec == Init /\ [][FeedNext]_vars

----------------------------------------------------------------------------
(* Track normalization: the popularity field of enhanceTrackData *)

(* What the backend puts in track.popularity: nothing, or a value whose
   text (String(value), as parseInt reads it) is a short string of a sign,
   digits and other characters: "101", "-1", "1x", "x", "0", ... *)
PopChars == {"-", "0", "1", "x"}
RawPopularities ==
    {[missing |-> TRUE, chars |-> <<>>]}
    \cup {[missing |-> FALSE, chars |-> t] : t \in SeqsUpTo(PopChars, MaxPopLen)}

NaN == [nan |-> TRUE, val |-> 0]

IsDigit(ch) == ch \in {"0", "1"}
DigitValue(ch) == IF ch = "1" THEN 1 ELSE 0

(* The value of the longest prefix of digits of t, read after acc. *)
RECURSIVE ParseDigits(_, _)
ParseDigits(t, acc) ==
    IF t # <<>> /\ IsDigit(Head(t))
    THEN ParseDigits(Tail(t), 10 * acc + DigitValue(Head(t)))
    ELSE acc

(* parseInt(value): leading blanks are skipped, a '-' is taken as the sign,
   the digits that follow are read up to the first other character; NaN when
   there is no digit. String(undefined) is "undefined": NaN. *)
parseInt(raw) ==
    IF raw.missing THEN NaN
    ELSE LET t == TrimStart(raw.chars)
             negative == t # <<>> /\ Head(t) = "-"
             digits == IF negative THEN Tail(t) ELSE t
         IN  IF digits = <<>> \/ ~IsDigit(Head(digits)) THEN NaN
             ELSE [nan |-> FALSE,
                   val |-> IF negative THEN 0 - ParseDigits(digits, 0)
                                       ELSE ParseDigits(digits, 0)]

(* Math.floor(Math.random() * 100) *)
RandomPopularities == 0..99

(* parseInt(track.popularity) || Math.floor(Math.random() * 100): NaN and 0
   are falsy. *)
Popularity(raw, random) ==
    LET parsed == parseInt(raw)
    IN  IF parsed.nan \/ parsed.val = 0 THEN random ELSE parsed.val

(* enhanceTrackData(track), for the popularity of the track it returns. *)
EnhanceTrack(raw, random) ==
    /\ Len(norm) < MaxNormalized
    /\ norm' = Append(norm, [raw |-> raw, popularity |-> Popularity(raw, random)])
    /\ UNCHANGED <<now, httpVars, wsVars>>

NormalizeNext ==
    \E raw \in RawPopularities, random \in RandomPopularities : EnhanceTrack(raw, random)

NormalizeSpec == Init /\ [][NormalizeNext]_vars

----------------------------------------------------------------------------
(* Properties of track normalization *)

\* C28: every track produced by enhanceTrackData has an integer popularity
\* between 0 and 100 inclusive, whatever popularity value the backend
\* supplied (missing, non-numeric, negative or above 100).
C28_PopularityInRange ==
    \A k \in 1..Len(norm) : norm[k].popularity \in 0..100

----------------------------------------------------------------------------
(* Properties of the HTTP layer *)

IsFetchOp(c) == c.op \in {"trending", "analytics"}
Started == Len(calls') = Len(calls) + 1
NewestCall == calls'[Len(calls')]

\* C1 (as stated): of two calls for the same cache key, the second starting
\* less than 30 s after the first, the second issues no network request and
\* returns the object the first returned.
C1_SecondCallWithin30sIsCached ==
    \A i, j \in 1..Len(calls) :
        (/\ i < j
         /\ IsFetchOp(calls[i])
         /\ calls[j].op = calls[i].op
         /\ calls[j].limit = calls[i].limit
         /\ calls[j].startedAt - calls[i].startedAt < 30000)
        => /\ ~calls[j].net
           /\ calls[i].pc = "done" /\ calls[j].pc = "done"
                => calls[j].ret = calls[i].ret

\* C1 (amended): when a call starts while its key's cache entry is the
\* result an earlier call fetched and stored less than 30 s before, the call
\* issues no network request and returns the identical object that earlier
\* call returned.
C1_CallWithin30sOfStoreIsCached ==
    [][Started /\ IsFetchOp(NewestCall) =>
        LET c == NewestCall
            key == CallKey(c)
        IN  (key \in DOMAIN cache /\ now - cache[key].timestamp < 30000)
            => /\ ~c.net
               /\ c.pc = "done"
               /\ c.ret = cache[key].data
               /\ \E i \in 1..Len(calls) :
                     /\ CallKey(calls[i]) = key /\ IsFetchOp(calls[i])
                     /\ calls[i].storedAt = cache[key].timestamp
                     /\ calls[i].ret = c.ret]_vars

C1_Witness ==
    \E i, j \in 1..Len(calls) :
        /\ i < j
        /\ calls[i].storedAt >= 0
        /\ calls[j].outcome = "hit"
        /\ calls[j].startedAt = calls[i].storedAt + 29999
        /\ calls[j].ret = calls[i].ret
        /\ calls[j].ret.kind = "trending"

\* C2: a call finds the cache valid exactly when an entry exists for its key
\* and now - entry.timestamp < 30 s; otherwise (no entry, or 30 s or more
\* elapsed) it issues a network request.
C2_CacheValidExactlyUnder30s ==
    [][Started /\ IsFetchOp(NewestCall) =>
        LET c == NewestCall
            key == CallKey(c)
        IN  /\ c.net <=> ~(key \in DOMAIN cache /\ now - cache[key].timestamp < 30000)
            /\ c.net <=> c.pc = "awaitFetch"]_vars

C2_Witness ==
    \E i, j \in 1..Len(calls) :
        /\ i < j
        /\ calls[i].storedAt >= 0
        /\ CallKey(calls[j]) = CallKey(calls[i]) /\ IsFetchOp(calls[j])
        /\ calls[j].startedAt = calls[i].storedAt + 30000
        /\ calls[j].net

FailureOutcomes == {"neterr", "status", "badjson", "badbody"}

\* C3: a getTrendingTracks(limit) call whose request failed (network error,
\* non-2xx status, unparsable or invalid body) has returned, and what it
\* returned carries exactly `limit` tracks, each with source 'fallback'.
C3_FailedTrendingReturnsFallback ==
    \A i \in 1..Len(calls) :
        (calls[i].op = "trending" /\ calls[i].outcome \in FailureOutcomes)
        => /\ calls[i].pc = "done"
           /\ Len(calls[i].ret.tracks) = calls[i].limit
           /\ \A k \in 1..Len(calls[i].ret.tracks) :
                 calls[i].ret.tracks[k].source = "fallback"

C3_Witness ==
    \E i \in 1..Len(calls) :
        /\ calls[i].op = "trending"
        /\ calls[i].outcome = "status"
        /\ calls[i].limit = 25
        /\ Len(calls[i].ret.tracks) = 25

\* C10: a request the backend has not answered is ended by its timeout
\* (15 s, or 10 s for the health check): no call is still waiting once more
\* than its timeout has elapsed since it was made.
C10_PendingRequestEndsAtTimeout ==
    \A i \in 1..Len(calls) :
        calls[i].pc # "done" => now - calls[i].startedAt <= calls[i].timeout

(* The step in which the call i ends, and the validation the specification
   attributes to the fetch: a non-empty track list, a content_distribution
   field. *)
Ends(i) == calls[i].pc # "done" /\ calls'[i].pc = "done"

Validated(data) ==
    /\ data # NullData
    /\ data.kind = "trending" => data.success /\ Len(data.tracks) > 0
    /\ data.kind = "analytics" => data.content_distribution

\* C14: getTrendingTracks accepts a response only if its track list is not
\* empty: no call returns an accepted response with tracks = [], and no
\* cache entry holds one; such a response ends in the fallback data.
C14_EmptyTrackListIsRejected ==
    /\ \A i \in 1..Len(calls) :
          (calls[i].op = "trending" /\ calls[i].pc = "done")
          => Len(calls[i].ret.tracks) > 0
    /\ \A key \in DOMAIN cache :
          key[1] = "trending" => Len(cache[key].data.tracks) > 0

\* C15: getAnalytics accepts a response only if it has content_distribution:
\* what an analytics call returns, and what the 'analytics' cache entry
\* holds, always contains content_distribution.
C15_AnalyticsHasContentDistribution ==
    /\ \A i \in 1..Len(calls) :
          (calls[i].op = "analytics" /\ calls[i].pc = "done")
          => calls[i].ret # NullData /\ calls[i].ret.content_distribution
    /\ AnalyticsKey \in DOMAIN cache
          => /\ cache[AnalyticsKey].data # NullData
             /\ cache[AnalyticsKey].data.content_distribution

\* C17: the cache changes only when a fetch that got a 2xx response ends
\* with a validated body, which becomes the entry of its key; a fetch that
\* fails leaves the whole cache as it was; no entry is ever removed.
C17_CacheWrittenOnlyByValidFetch ==
    [][/\ cache' # cache =>
            \E i \in 1..Len(calls) :
                /\ Ends(i) /\ calls[i].net /\ calls[i].ok
                /\ calls'[i].outcome = "ok"
                /\ Validated(calls'[i].ret)
                /\ CallKey(calls[i]) \in DOMAIN cache'
                /\ cache'[CallKey(calls[i])] =
                        [data |-> calls'[i].ret, timestamp |-> now]
                /\ \A key \in DOMAIN cache :
                        key # CallKey(calls[i]) =>
                            key \in DOMAIN cache' /\ cache'[key] = cache[key]
       /\ \A i \in 1..Len(calls) :
            (Ends(i) /\ calls'[i].outcome \in FailureOutcomes) => cache' = cache
       /\ DOMAIN cache \subseteq DOMAIN cache']_vars

\* C18: concurrent fetches for one key are neither deduplicated nor
\* sequenced: a getTrendingTracks call that finds no valid entry issues a
\* request even while another request for its key is pending, and every
\* accepted response overwrites the entry of its key and stamps it with the
\* current time, whatever the entry held and whenever the request was made.
C18_LastResolvedFetchOverwrites ==
    [][/\ (Started /\ NewestCall.op = "trending") =>
            LET key == CallKey(NewestCall)
            IN  ~(key \in DOMAIN cache /\ now - cache[key].timestamp < 30000)
                => NewestCall.net /\ NewestCall.pc = "awaitFetch"
       /\ \A i \in 1..Len(calls) :
            (Ends(i) /\ calls[i].op = "trending" /\ calls'[i].outcome = "ok")
            => /\ CallKey(calls[i]) \in DOMAIN cache'
               /\ cache'[CallKey(calls[i])] =
                      [data |-> calls'[i].ret, timestamp |-> now]]_vars

(* The request of call i was issued first and answered last: its result
   replaced the one call j, issued later, had stored before. *)
C18_Witness ==
    \E i, j \in 1..Len(calls) :
        /\ i < j
        /\ calls[i].op = "trending" /\ calls[j].op = "trending"
        /\ calls[i].limit = calls[j].limit
        /\ calls[i].net /\ calls[j].net
        /\ calls[j].storedAt >= calls[j].startedAt
        /\ calls[i].storedAt > calls[j].storedAt
        /\ cache[CallKey(calls[i])].data = calls[i].ret
        /\ cache[CallKey(calls[i])].timestamp = calls[i].storedAt

(* The key an operation reads and writes, as the source builds it:
   `trending_${limit}` or 'analytics'. *)
OwnKey(c) == IF c.op = "trending" THEN <<"trending", c.limit>> ELSE <<"analytics", 0>>

\* C29: cache keys are independent: the entry of a key is created or
\* replaced only by a fetch for that very key, which leaves every other
\* entry as it was, and a call finds its key valid or not by that key's own
\* entry alone.
C29_CacheKeysIndependent ==
    [][/\ \A key \in DOMAIN cache' :
            (key \notin DOMAIN cache \/ cache'[key] # cache[key])
            => \E i \in 1..Len(calls) :
                  /\ Ends(i) /\ calls[i].op \in {"trending", "analytics"}
                  /\ OwnKey(calls[i]) = key
                  /\ cache'[key].data = calls'[i].ret
                  /\ \A other \in DOMAIN cache :
                        other # key => /\ other \in DOMAIN cache'
                                       /\ cache'[other] = cache[other]
       /\ DOMAIN cache \subseteq DOMAIN cache'
       /\ (Started /\ NewestCall.op \in {"trending", "analytics"}) =>
            LET key == OwnKey(NewestCall)
            IN  NewestCall.net <=>
                    ~(key \in DOMAIN cache /\ now - cache[key].timestamp < 30000)]_vars

(* Two entries under different keys, stored at different times, each holding
   what the fetch for its own key returned. *)
C29_Witness ==
    \E i, j \in 1..Len(calls) :
        /\ calls[i].op = "trending" /\ calls[j].op \in {"trending", "analytics"}
        /\ OwnKey(calls[i]) # OwnKey(calls[j])
        /\ OwnKey(calls[i]) \in DOMAIN cache /\ OwnKey(calls[j]) \in DOMAIN cache
        /\ cache[OwnKey(calls[i])].data = calls[i].ret
        /\ cache[OwnKey(calls[j])].data = calls[j].ret
        /\ cache[OwnKey(calls[i])].timestamp # cache[OwnKey(calls[j])].timestamp

----------------------------------------------------------------------------
(* Properties of the search *)

IsSearch(c) == c.op = "search"
IsText(query) == query.type \in {"undefined", "string"}
ShortCircuited(c) ==
    /\ ~c.net /\ c.pc = "done"
    /\ c.ret.kind = "search"
    /\ c.ret.tracks = <<>> /\ c.ret.total = 0
    /\ ~c.ret.query /\ ~c.ret.error

\* C12 (as stated): a query under 2 characters long, empty or missing, gets
\* {tracks: [], total: 0} with no network request; a query of 2 or more
\* characters issues a GET.
C12_ShortQueryNoRequest ==
    \A i \in 1..Len(calls) :
        (IsSearch(calls[i]) /\ IsText(calls[i].query))
        => IF Len(calls[i].query.chars) < 2
           THEN ShortCircuited(calls[i])
           ELSE calls[i].net

\* C12 (amended): a missing query, or a string that is under 2 characters
\* long once the blanks at its ends are trimmed, gets {tracks: [], total: 0}
\* with no network request; a string of 2 or more characters after trimming
\* issues a GET.
C12_ShortTrimmedQueryNoRequest ==
    \A i \in 1..Len(calls) :
        (IsSearch(calls[i]) /\ IsText(calls[i].query))
        => IF Len(Trim(calls[i].query.chars)) < 2
           THEN ShortCircuited(calls[i])
           ELSE calls[i].net

C12_Witness ==
    \E i, j \in 1..Len(calls) :
        /\ IsSearch(calls[i]) /\ IsSearch(calls[j])
        /\ calls[i].query.type = "string"
        /\ calls[i].query.chars = <<" ", "a">>
        /\ ShortCircuited(calls[i])
        /\ calls[j].query.type = "string"
        /\ calls[j].query.chars = <<"a", "a">>
        /\ calls[j].net

(* The request of a call that has ended failed: no response, a status
   outside 2xx, or a body that is not JSON. *)
TransportFailed(c) ==
    c.net /\ c.pc = "done" /\ (~c.ok \/ c.outcome = "badjson")

\* C13: searchTracks never throws, and whenever its request failed (network
\* error, non-2xx status, a body that is not JSON or not of the expected
\* form) it returns tracks = [], total = 0 and an error field.
C13_SearchNeverThrowsAndReportsError ==
    \A i \in 1..Len(calls) :
        IsSearch(calls[i])
        => /\ calls[i].outcome # "thrown"
           /\ (TransportFailed(calls[i]) \/ calls[i].outcome = "badbody")
                => /\ calls[i].ret.tracks = <<>>
                   /\ calls[i].ret.total = 0
                   /\ calls[i].ret.error

(* The value each operation falls back to. *)
IsFallbackValue(c) ==
    CASE c.op = "health"    -> ~c.ret.healthy /\ c.ret.error
      [] c.op = "trending"  -> c.ret.source = "fallback"
      [] c.op = "analytics" -> c.ret # NullData /\ c.ret.source = "fallback"
      [] c.op = "search"    -> c.ret.tracks = <<>> /\ c.ret.total = 0

\* C16: no operation raises on a transport failure: a call whose request
\* failed (network error, non-2xx status, unparsable body) has returned its
\* operation's fallback value: {healthy: false, error}, fallback tracks,
\* fallback analytics, an empty search result.
C16_TransportFailureYieldsFallback ==
    \A i \in 1..Len(calls) :
        TransportFailed(calls[i])
        => calls[i].ret.kind # "TypeError" /\ IsFallbackValue(calls[i])

----------------------------------------------------------------------------
(* Properties of the Dashboard's live updates *)

(* The fields of trendingData other than tracks are those of before. *)
OtherFieldsKept(old, new) ==
    /\ new.success = old.success
    /\ new.metaSource = old.metaSource
    /\ new.metaTotal = old.metaTotal
    /\ new.last_update = old.last_update

IsTrackUpdate(msg) == msg.json /\ msg.type = "trending_update" /\ msg.hasData

\* C11 (as stated): when the mounted Dashboard receives a trending_update
\* whose data is the list L, its track list becomes exactly L and every
\* other field of trendingData is kept; any other message leaves trendingData
\* as it was.
C11_TrendingUpdateReplacesTracksOnly ==
    [][\A s \in 1..Len(socks), msg \in Messages :
        (SocketMessage(s, msg) /\ dash[socks[s].owner].mounted)
        => LET old == dash[socks[s].owner].trendingData
               new == dash'[socks[s].owner].trendingData
           IN  IF IsTrackUpdate(msg)
               THEN new.tracks = msg.data /\ OtherFieldsKept(old, new)
               ELSE new = old]_vars

\* C11 (amended): when the mounted Dashboard receives a trending_update
\* whose data is the list L, its track list becomes exactly L, metadata gets
\* source 'websocket' and a new last_update, and the other fields of
\* trendingData and of its metadata are kept; any other message leaves
\* trendingData as it was.
C11_TrendingUpdateReplacesTracks ==
    [][\A s \in 1..Len(socks), msg \in Messages :
        (SocketMessage(s, msg) /\ dash[socks[s].owner].mounted)
        => LET old == dash[socks[s].owner].trendingData
               new == dash'[socks[s].owner].trendingData
           IN  IF IsTrackUpdate(msg)
               THEN /\ new.tracks = msg.data
                    /\ ~new.null
                    /\ new.success = old.success
                    /\ new.metaTotal = old.metaTotal
                    /\ new.metaSource = "websocket"
                    /\ new.last_update = now
               ELSE new = old]_vars

(* A Dashboard that had loaded the tracks 1, 2 holds 2, 1 after a live
   update. *)
C11_Witness ==
    \E i \in 1..Len(dash) :
        /\ dash[i].mounted
        /\ dash[i].trendingData.tracks = <<2, 1>>
        /\ dash[i].trendingData.metaSource = "websocket"
        /\ dash[i].trendingData.success
        /\ dash[i].trendingData.metaTotal = 2

----------------------------------------------------------------------------
(* Properties of the live feed *)

LiveSockets == {s \in 1..Len(socks) : socks[s].readyState \in {"CONNECTING", "OPEN"}}
PendingReconnects == {k \in 1..Len(timers) : timers[k].kind = "reconnect"}
UnresolvedReconnects ==
    {s \in 1..Len(socks) :
        socks[s].via = "reconnect" /\ socks[s].readyState = "CONNECTING"}

\* C4: with no successful open in between, automatic reconnection stops
\* after 5 attempts: the reconnect attempts made since the last open and
\* those still scheduled never number more than 5, so that after the fifth
\* failure none is scheduled.
C4_ReconnectStopsAfterFive ==
    reconnectAttempts + Cardinality(PendingReconnects) <= 5

\* C5: at every moment at most one socket made by the service is connecting
\* or open.
C5_AtMostOneLiveSocket == Cardinality(LiveSockets) <= 1

(* The step in which the mounted Dashboard's cleanup calls
   disconnectWebSocket. *)
Disconnects == dash # <<>> /\ Len(dash') = Len(dash) + 1

\* C6: disconnectWebSocket closes the current socket and leaves ws null,
\* wsConnected false and the reconnect counter 0; with no socket it changes
\* nothing.
C6_DisconnectResetsReconnectState ==
    [][Disconnects =>
        IF ws # NoSocket
        THEN /\ socks'[ws].readyState \in {"CLOSING", "CLOSED"}
             /\ ws' = NoSocket
             /\ wsConnected' = FALSE
             /\ reconnectAttempts' = 0
        ELSE UNCHANGED <<ws, wsConnected, reconnectAttempts, socks>>]_vars

(* The step in which the Dashboard's wsTimer fires and the Dashboard calls
   connectWebSocket. *)
AppConnects ==
    \E k \in 1..Len(timers) :
        /\ timers[k].kind = "wsTimer"
        /\ timers[k].due <= now
        /\ timers' = RemoveAt(timers, k)

\* C7: connectWebSocket called while the current socket is open creates no
\* socket and changes neither ws, wsConnected nor the reconnect counter; the
\* open socket keeps the callbacks it was created with, and the callbacks
\* passed to the call are never invoked.
C7_ConnectWhileOpenIsNoOp ==
    /\ [][(AppConnects /\ ws # NoSocket /\ socks[ws].readyState = "OPEN")
            => UNCHANGED <<ws, wsConnected, reconnectAttempts, socks>>]_vars
    /\ [](\A i \in 1..Len(dash) : dash[i].connect = "noop" => ~dash[i].invoked)

C7_Witness ==
    \E i \in 1..Len(dash) :
        /\ dash[i].connect = "noop"
        /\ ws # NoSocket
        /\ socks[ws].readyState = "OPEN"
        /\ socks[ws].owner # i
        /\ dash[socks[ws].owner].invoked

(* The step in which an onclose handler schedules a reconnect. *)
SchedulesReconnect ==
    /\ Len(timers') = Len(timers) + 1
    /\ timers'[Len(timers')].kind = "reconnect"

\* C8: a reconnect is scheduled with a delay of 3 s times the reconnect
\* counter, and within a run of reconnects with no open in between each
\* delay is exactly 3 s longer than the one before.
C8_LinearBackoff ==
    [][SchedulesReconnect =>
        /\ timers'[Len(timers')].delay = 3000 * reconnectAttempts
        /\ timers'[Len(timers')].due = now + 3000 * reconnectAttempts
        /\ lastDelay >= 0 => timers'[Len(timers')].delay = lastDelay + 3000]_vars

\* C9: reconnects are serialized: at most one reconnect is in flight, be it
\* a pending reconnect timer or an unresolved reconnect connection attempt.
C9_ReconnectsSerialized ==
    Cardinality(PendingReconnects) + Cardinality(UnresolvedReconnects) <= 1

(* disconnectWebSocket has been called, by the cleanup of the Dashboard
   that was mounted before, and the application has not called
   connectWebSocket since: the Dashboard mounted now has yet to do it. *)
Disconnected == Len(dash) >= 2 /\ dash[Len(dash)].connect = "none"

\* C19: from disconnectWebSocket until the application calls
\* connectWebSocket again, no socket is created and no reconnect is
\* scheduled: neither the close of the disconnected socket nor a reconnect
\* timer that was pending opens a connection.
C19_NoReconnectAfterDisconnect ==
    [][(Disconnected /\ Disconnected')
        => Len(socks') = Len(socks) /\ ~SchedulesReconnect]_vars

\* C20: the reconnect counter is always between 0 and 5.
C20_ReconnectCounterInRange ==
    reconnectAttempts >= 0 /\ reconnectAttempts <= 5

\* C21: wsConnected is true only while this.ws refers to a socket that is
\* open; in particular it is false whenever ws is null.
C21_ConnectedOnlyWhileWsOpen ==
    wsConnected => (ws # NoSocket /\ socks[ws].readyState = "OPEN")

\* C22: a successful open resets the reconnect counter to 0, and the counter
\* is 0 whenever the live connection is open (wsConnected true).
C22_CounterZeroWhileConnected ==
    wsConnected => reconnectAttempts = 0

StatusCall(s, connected) ==
    [cb |-> socks[s].owner, fn |-> "onConnectionChange",
     arg |-> [connected |-> connected]]

\* C23: every close of a live socket invokes the status callback with false
\* exactly once, whether a reconnect is scheduled after it or the client
\* has given up; every open invokes the status callback with true exactly
\* once.  A mounted Dashboard then shows the new status.
C23_StatusCallbackOncePerOpenAndClose ==
    [][\A s \in 1..Len(socks) :
        /\ SocketClose(s) =>
              /\ callbacks' = <<StatusCall(s, FALSE)>>
              /\ dash[socks[s].owner].mounted =>
                    /\ ~dash'[socks[s].owner].wsConnected
                    /\ dash'[socks[s].owner].connectionStatus = "disconnected"
        /\ SocketOpen(s) =>
              /\ callbacks' = <<StatusCall(s, TRUE)>>
              /\ dash[socks[s].owner].mounted =>
                    /\ dash'[socks[s].owner].wsConnected
                    /\ dash'[socks[s].owner].connectionStatus = "connected"]_vars

(* The final close: the counter has reached 5, the status callback was
   called with false and no reconnect is pending. *)
C23_Witness ==
    /\ reconnectAttempts >= 5
    /\ ReconnectTimers = {}
    /\ Len(callbacks) = 1
    /\ callbacks[1].fn = "onConnectionChange"
    /\ ~callbacks[1].arg.connected
    /\ \A s \in 1..Len(socks) : ~Live(s)

\* C24: a live-feed message whose payload is not valid JSON is a logged
\* no-op (onMessage is not invoked, and ws, wsConnected and the reconnect
\* counter are unchanged), and every message that parses is dispatched to
\* onMessage exactly once.
C24_ParsedMessagesDispatchedOnce ==
    [][\A s \in 1..Len(socks), msg \in Messages :
        SocketMessage(s, msg) =>
            IF msg.json
            THEN callbacks' = <<[cb |-> socks[s].owner, fn |-> "onMessage",
                                 arg |-> [type |-> msg.type]]>>
            ELSE /\ callbacks' = <<>>
                 /\ UNCHANGED <<ws, wsConnected, reconnectAttempts, socks,
                                timers, dash>>]_vars

----------------------------------------------------------------------------
(* Properties of the Dashboard's state *)

\* C25: once the Dashboard's initial load has completed, trendingData always
\* holds a non-empty track list and analytics always holds a
\* content_distribution, whatever live messages arrive afterwards.
C25_LoadedDashboardNeverEmpty ==
    \A i \in 1..Len(dash) :
        dash[i].load = "done" =>
            /\ ~dash[i].trendingData.null
            /\ Len(dash[i].trendingData.tracks) > 0
            /\ ~dash[i].analytics.null
            /\ dash[i].analytics.content_distribution

\* C26 (as stated): the connection state of the Dashboard is always one of
\* connecting, connected, disconnected, error.
C26_StatusIsOneOfFour ==
    \A i \in 1..Len(dash) :
        dash[i].connectionStatus \in
            {"connecting", "connected", "disconnected", "error"}

StatusChanges(i) == dash'[i].connectionStatus # dash[i].connectionStatus

\* C26 (amended): the connection state is always one of connecting,
\* connected, degraded, disconnected, error.  It starts as connecting; the
\* health check of loadDashboardData sets it to connected when healthy and
\* to degraded otherwise; while the Dashboard is mounted it becomes
\* connected when a socket with its callbacks opens and disconnected when
\* one closes; nothing else changes it.
C26_StatusIsOneOfFive ==
    [][/\ \A i \in 1..Len(dash') :
            /\ dash'[i].connectionStatus \in
                  {"connecting", "connected", "degraded", "disconnected", "error"}
            /\ i > Len(dash) => dash'[i].connectionStatus = "connecting"
       /\ \A healthy \in BOOLEAN :
            ConnectionTested(healthy) =>
                dash'[Len(dash)].connectionStatus =
                    IF healthy THEN "connected" ELSE "degraded"
       /\ \A s \in 1..Len(socks) :
            /\ (SocketOpen(s) /\ dash[socks[s].owner].mounted) =>
                    dash'[socks[s].owner].connectionStatus = "connected"
            /\ (SocketClose(s) /\ dash[socks[s].owner].mounted) =>
                    dash'[socks[s].owner].connectionStatus = "disconnected"
       /\ \A i \in 1..Len(dash) :
            (dash'[i].mounted /\ StatusChanges(i)) =>
                \/ i = Len(dash) /\ \E healthy \in BOOLEAN : ConnectionTested(healthy)
                \/ \E s \in 1..Len(socks) :
                        socks[s].owner = i /\ (SocketOpen(s) \/ SocketClose(s))]_vars

(* The health check failed while the live socket is open: the Dashboard
   shows degraded. *)
C26_Witness ==
    \E i \in 1..Len(dash) :
        /\ dash[i].mounted
        /\ dash[i].connectionStatus = "degraded"
        /\ dash[i].wsConnected

\* C27: after a Dashboard instance's cleanup has run, the message and status
\* callbacks it registered change none of its state, and it makes no
\* connectWebSocket call; an instance cleaned up before its 2 s timer fired
\* never has a socket.
C27_NoEffectAfterCleanup ==
    [][\A i \in 1..Len(dash) :
        ~dash[i].mounted =>
            /\ dash'[i].wsConnected = dash[i].wsConnected
            /\ dash'[i].connectionStatus = dash[i].connectionStatus
            /\ dash'[i].trendingData = dash[i].trendingData
            /\ dash'[i].analytics = dash[i].analytics
            /\ dash'[i].connect = dash[i].connect
            /\ dash[i].connect = "none" =>
                    \A s \in 1..Len(socks') : socks'[s].owner # i]_vars

(* A live message has just been handed to the onMessage callback of an
   unmounted Dashboard. *)
C27_Witness ==
    /\ Len(callbacks) = 1
    /\ callbacks[1].fn = "onMessage"
    /\ callbacks[1].arg.type = "trending_update"
    /\ ~dash[callbacks[1].cb].mounted

====
